---- MODULE Spec2Model ----
(***************************************************************************)
(* Model of the scheduler of todoist-AI-assistant (src/ai_scheduler.py)    *)
(* and of the web service that starts it (src/app.py).                     *)
(*                                                                         *)
(* Time.  A datetime is an integer count of five-minute units; a date is   *)
(* an integer day number, and datetime.combine(d, t) is d * DayLen + t.    *)
(* Five minutes is the grain of every time constant of the script (the     *)
(* 5-minute default buffer, the 10-minute lead and the 15-minute block     *)
(* around "now").  An interval is a pair <<start, end>>.                   *)
(*                                                                         *)
(* Strings.  date_strs holds ISO strings; Iso and FromIso model            *)
(* date.isoformat and date.fromisoformat.                                  *)
(***************************************************************************)
EXTENDS Integers, Sequences, FiniteSets, TLC

VARIABLES
    now,                \* datetime.now(tz), line 112
    working,            \* the dates on which cal.is_working_day holds (no holiday)
    BUFFER,             \* cfg buffer_minutes in units, line 283
    tasks_to_schedule,  \* the tasks selected in step 2, after the decay of step 4
    calendar_busy,      \* date -> merged calendar events, get_calendar_busy, line 187
    busy_slots,         \* date -> merged busy intervals, lines 266-280
    pc,                 \* position of the script: "step5", "loop", "done", "crashed"
    placed,             \* history: one record per task update of lines 359-367, with
                        \* what the turn of the loop computed: dur, member (due_input
                        \* in date_strs), candidates, due, pointer, end, degraded
                        \* (pointer was None), busy_before (busy_slots at its start)
                        \* and posted (the keys of the body sent to the tracker)
    m_in, m_out, m_again, m_pc,  \* the interval merger run on its own (SpecMerge)
    priority_decay_per_day,      \* cfg priority_decay_per_day, line 289
    decay_in,                    \* history: tasks_to_schedule as step 2 left it
    g_start, g_end, g_out, g_pc, \* get_available_dates run on its own (SpecDates)
    calendar,           \* app.py: the events of GOOGLE_CAL_ID, event id -> the task id
                        \* its title is tagged with
    procs,              \* app.py: ai_scheduler.py processes in progress, by the
                        \* handler that started them
    clock,              \* app.py: datetime.utcnow(), in minutes
    last_scheduler_run, \* app.py line 62
    last_start,         \* app.py history: when a handler last started ai_scheduler.py
    hooks               \* app.py history: one record per Todoist webhook handled

vars == <<now, working, BUFFER, calendar_busy, tasks_to_schedule, busy_slots, pc, placed,
          m_in, m_out, m_again, m_pc, priority_decay_per_day, decay_in,
          g_start, g_end, g_out, g_pc,
          calendar, procs, clock, last_scheduler_run, last_start, hooks>>

runVars == <<now, working, BUFFER, calendar_busy, tasks_to_schedule, busy_slots, pc, placed>>
mergeVars == <<m_in, m_out, m_again, m_pc>>
decayVars == <<priority_decay_per_day, decay_in>>
datesVars == <<g_start, g_end, g_out, g_pc>>
appVars == <<calendar, procs, clock, last_scheduler_run, last_start, hooks>>

(***************************************************************************)
(* Configuration (config.yaml) and the script's time constants.           *)
(***************************************************************************)
DayLen == 288                        \* five-minute units in timedelta(days=1)
work_start == 4                      \* cfg work_hours.start, 00:20
work_end == 12                       \* cfg work_hours.end, 01:00
schedule_horizon_days == 1           \* cfg schedule_horizon_days
default_task_duration_minutes == 2   \* cfg default_task_duration_minutes, 10 min
max_tasks_per_day == 1               \* cfg max_tasks_per_day
now_lead == 2                        \* timedelta(minutes=10), lines 331 and 353
current_time_buffer == 3             \* timedelta(minutes=15), line 309

(***************************************************************************)
(* Bounds of the model.                                                    *)
(***************************************************************************)
MaxAssigns == 2     \* suggestions the placement loop consumes in one run
MaxLen == 3         \* length of the lists given to the merger in SpecMerge
MaxAge == 11        \* oldest creation date of a task, in days before today
MaxDay == 7         \* last day number given to get_available_dates in SpecDates
MaxHooks == 2       \* Todoist webhooks handled in SpecApp
MaxProcs == 2       \* ai_scheduler.py processes in progress at once in SpecApp
MaxClock == 3       \* minutes that pass in SpecApp

\* Faulty variant of Max: the second argument, whatever the first.
Latter(x, y) == y

Max(x, y) == IF x >= y THEN x ELSE y

today == now \div DayLen
max_date == today + schedule_horizon_days
At(d, t) == d * DayLen + t

Iso(d) == "day" \o ToString(d)

\* The dates a suggestion can name: yesterday .. the day after the horizon.
NamedDates == (today - 1) .. (max_date + 1)

FromIso(s) == CHOOSE d \in NamedDates : Iso(d) = s

\* date.weekday(): Monday is 0; day number 0 is a Monday.
Weekday(d) == d % 7

\* lines 50-51
is_working_day(d) == Weekday(d) < 5 /\ d \in working

\* Faulty variant of get_available_dates: the end date is left out.
RECURSIVE DatesBeforeEnd(_, _)
DatesBeforeEnd(start, end) ==
    IF start >= end THEN <<>>
    ELSE (IF is_working_day(start) THEN <<start>> ELSE <<>>)
         \o DatesBeforeEnd(start + 1, end)

\* lines 53-60
RECURSIVE get_available_dates(_, _)
get_available_dates(start, end) ==
    IF start > end THEN <<>>
    ELSE (IF is_working_day(start) THEN <<start>> ELSE <<>>)
         \o get_available_dates(start + 1, end)

avail == get_available_dates(today, max_date)

date_strs == [i \in 1..Len(avail) |-> Iso(avail[i])]

InSeq(x, seq) == \E i \in 1..Len(seq) : seq[i] = x

(***************************************************************************)
(* merge_intervals, lines 62-70.                                           *)
(***************************************************************************)
RECURSIVE InsertByStart(_, _)
InsertByStart(x, seq) ==
    IF seq = <<>> THEN <<x>>
    ELSE IF seq[Len(seq)][1] <= x[1] THEN Append(seq, x)
    ELSE Append(InsertByStart(x, SubSeq(seq, 1, Len(seq) - 1)), seq[Len(seq)])

\* sorted(intervals, key=lambda x: x[0]): a stable sort on the start.
RECURSIVE SortedByStart(_)
SortedByStart(intervals) ==
    IF intervals = <<>> THEN <<>>
    ELSE InsertByStart(intervals[Len(intervals)],
                       SortedByStart(SubSeq(intervals, 1, Len(intervals) - 1)))

\* Faulty variant of StartsAfter: compares with the start of the last interval.
StartsAfterStart(last, s) == last[1] < s

\* Faulty variant of StartsAfter: half-open, an interval that starts where the
\* last one ends is kept apart.
StartsAtOrAfter(last, s) == last[2] <= s

\* merged[-1][1] < s, line 66
StartsAfter(last, s) == last[2] < s

\* Faulty variant of NewEntry: pads the end of an appended interval.
PaddedEntry(s, e) == <<s, e + 1>>

\* merged.append([s, e]), line 67
NewEntry(s, e) == <<s, e>>

RECURSIVE MergeScan(_, _)
MergeScan(merged, rest) ==
    IF rest = <<>> THEN merged
    ELSE LET s == rest[1][1]
             e == rest[1][2]
             n == Len(merged)
         IN  IF merged = <<>> \/ StartsAfter(merged[n], s)
             THEN MergeScan(Append(merged, NewEntry(s, e)), Tail(rest))
             ELSE MergeScan([merged EXCEPT ![n] = <<merged[n][1], Max(merged[n][2], e)>>],
                            Tail(rest))

merge_intervals(intervals) == MergeScan(<<>>, SortedByStart(intervals))

(***************************************************************************)
(* Step 5, lines 296-367: the suggestions and the placement loop.          *)
(***************************************************************************)
\* dur = a.get('duration_minutes', default), line 319
Dur(s) ==
    IF "duration_minutes" \in DOMAIN s THEN s.duration_minutes
    ELSE default_task_duration_minutes

\* due_input = a.get('due_date') or '', line 320
DueInput(s) == IF "due_date" \in DOMAIN s THEN s.due_date ELSE ""

IsoDates == {Iso(d) : d \in NamedDates}

\* Faulty variant of Candidates: accepts any well-formed date, in the horizon or not.
AnyWellFormed(s) == IF DueInput(s) \in IsoDates THEN <<DueInput(s)>> ELSE date_strs

\* candidates = [due_input] if due_input in date_strs else date_strs, line 321
Candidates(s) == IF InSeq(DueInput(s), date_strs) THEN <<DueInput(s)>> ELSE date_strs

\* the first value of ptr / pointer on a date, lines 328-334 and 349-356
DayStart(ddate) ==
    IF ddate = today THEN Max(At(ddate, work_start), now + now_lead)
    ELSE At(ddate, work_start)

\* busy_slots.get(ddate, [])
SlotsOf(busy, ddate) == IF ddate \in DOMAIN busy THEN busy[ddate] ELSE <<>>

\* Faulty variant of GapScan: leaves no buffer after a busy interval.
RECURSIVE GapScanNoBuffer(_, _, _)
GapScanNoBuffer(ptr, slots, dur) ==
    IF slots = <<>> THEN ptr
    ELSE IF ptr + dur <= slots[1][1] - BUFFER THEN ptr
    ELSE GapScanNoBuffer(Max(ptr, slots[1][2]), Tail(slots), dur)

\* the scan of lines 336-339
RECURSIVE GapScan(_, _, _)
GapScan(ptr, slots, dur) ==
    IF slots = <<>> THEN ptr
    ELSE IF ptr + dur <= slots[1][1] - BUFFER THEN ptr
    ELSE GapScan(Max(ptr, slots[1][2] + BUFFER), Tail(slots), dur)

\* Faulty variant of Fits: rejects a slot that ends exactly at work_end.
FitsStrict(ptr, ddate, dur) == ptr + dur < At(ddate, work_end)

\* line 341
Fits(ptr, ddate, dur) == ptr + dur <= At(ddate, work_end)

\* the loop over candidates, lines 324-344: the first candidate with a gap
RECURSIVE FirstFit(_, _, _)
FirstFit(cands, busy, dur) ==
    IF cands = <<>> THEN [found |-> FALSE]
    ELSE LET dd == cands[1]
             ddate == FromIso(dd)
             ptr == GapScan(DayStart(ddate), SlotsOf(busy, ddate), dur)
         IN  IF Fits(ptr, ddate, dur)
             THEN [found |-> TRUE, due |-> dd, pointer |-> ptr]
             ELSE FirstFit(Tail(cands), busy, dur)

\* lines 346-357: pointer is None
NoGap == [due |-> date_strs[1], pointer |-> DayStart(FromIso(date_strs[1]))]

\* Faulty variant of AddSlot: the interval is appended and the list left unmerged.
AppendOnly(busy, dslot, s, e) ==
    [d \in DOMAIN busy \cup {dslot} |->
        IF d = dslot THEN Append(SlotsOf(busy, d), <<s, e>>)
        ELSE busy[d]]

\* the keys of the json body of the task update, line 362
PostedKeys == {"due_datetime", "duration", "duration_unit"}

\* lines 365-367
AddSlot(busy, dslot, s, e) ==
    [d \in DOMAIN busy \cup {dslot} |->
        IF d = dslot THEN merge_intervals(Append(SlotsOf(busy, d), <<s, e>>))
        ELSE busy[d]]

\* lines 308-315
BlockNow(busy) ==
    IF today \in DOMAIN busy
    THEN AddSlot(busy, today, now - current_time_buffer, now + current_time_buffer)
    ELSE busy

(***************************************************************************)
(* Step 2, lines 214-244: the test that selects a task with a due time.    *)
(***************************************************************************)
\* t.get("duration") or cfg.get("default_task_duration_minutes", 60), line 232
StoredDuration(duration) ==
    IF duration = 0 THEN default_task_duration_minutes ELSE duration

\* line 238
Conflicts(start, end_time, bs, be) ==
    \/ (bs <= start /\ start < be)
    \/ (bs < end_time /\ end_time <= be)
    \/ (start <= bs /\ end_time >= be)

\* needs_update of a task due at start, lines 217-241
needs_update(start, duration, busy_calendar) ==
    IF start < now THEN TRUE
    ELSE LET task_date == start \div DayLen
             end_time == start + StoredDuration(duration)
             slots == SlotsOf(busy_calendar, task_date)
         IN  \E i \in 1..Len(slots) :
                 Conflicts(start, end_time, slots[i][1], slots[i][2])

(***************************************************************************)
(* The inputs of a run.                                                    *)
(***************************************************************************)
NowChoices == {1, 6}     \* the time of day of the run: before and inside work hours
BufferChoices == {0, 1}
\* the calendar events found on one date, as fetched (unmerged, any order)
RawBusyChoices ==
    { <<>>,
      << <<9, 10>>, <<4, 5>> >> }
TaskChoices ==
    { <<>>,
      << [id |-> "t1", priority |-> 2], [id |-> "t2", priority |-> 1] >> }
TaskIds == {"t1", "t2"}
DueChoices == IsoDates \cup {"garbage"}
DurChoices == {-6, 3, 9}
\* what the suggestion source can return for one task: each field may be missing
Suggestions ==
    {[id |-> i] : i \in TaskIds}
    \cup {[id |-> i, due_date |-> dd] : i \in TaskIds, dd \in DueChoices}
    \cup {[id |-> i, duration_minutes |-> n] : i \in TaskIds, n \in DurChoices}
    \cup {[id |-> i, due_date |-> dd, duration_minutes |-> n] :
            i \in TaskIds, dd \in DueChoices, n \in DurChoices}

MergeIdle == m_in = <<>> /\ m_out = <<>> /\ m_again = <<>> /\ m_pc = "idle"

\* Step 4 is not looked at: the tasks are taken as it left them.
DecayIdle == priority_decay_per_day = 0 /\ decay_in = <<>>

DatesIdle == g_start = 0 /\ g_end = 0 /\ g_out = <<>> /\ g_pc = "idle"

\* datetime.min, app.py line 62: long before any request
datetime_min == -1000000

\* the handlers of app.py that start ai_scheduler.py
Origins == {"todoist", "manual", "calendar"}

\* The web service is not looked at.
AppIdle ==
    /\ calendar = <<>> /\ procs = [o \in Origins |-> 0] /\ clock = 0
    /\ last_scheduler_run = datetime_min /\ last_start = datetime_min
    /\ hooks = <<>>

\* The state after steps 1-4 (lines 112-293), when no task of the tracker
\* keeps a due time: step 3 leaves busy_slots equal to calendar_busy.
Init ==
    /\ MergeIdle
    /\ DecayIdle
    /\ DatesIdle
    /\ AppIdle
    /\ now \in NowChoices
    /\ working \in SUBSET (today .. max_date)
    /\ BUFFER \in BufferChoices
    /\ tasks_to_schedule \in TaskChoices
    /\ \E raw \in [{avail[i] : i \in 1..Len(avail)} -> RawBusyChoices] :
          calendar_busy = [d \in DOMAIN raw |->
              merge_intervals([i \in 1..Len(raw[d]) |->
                  <<At(d, raw[d][i][1]), At(d, raw[d][i][2])>>])]
    /\ busy_slots = calendar_busy
    /\ pc = "step5"
    /\ placed = <<>>

\* lines 296-315: there are tasks; the suggestions arrive, the current time is blocked
StartLoop ==
    /\ pc = "step5"
    /\ tasks_to_schedule # <<>>
    /\ busy_slots' = BlockNow(busy_slots)
    /\ pc' = "loop"
    /\ UNCHANGED <<now, working, BUFFER, calendar_busy, tasks_to_schedule, placed>>
    /\ UNCHANGED <<mergeVars, decayVars, datesVars, appVars>>

\* lines 302-303: call_openai raises after its three attempts, or the reply
\* is not the JSON expected; the exception ends the script
SuggestFails ==
    /\ pc = "step5"
    /\ tasks_to_schedule # <<>>
    /\ pc' = "crashed"
    /\ UNCHANGED <<now, working, BUFFER, calendar_busy, tasks_to_schedule, busy_slots, placed>>
    /\ UNCHANGED <<mergeVars, decayVars, datesVars, appVars>>

\* line 296: nothing to schedule
SkipLoop ==
    /\ pc = "step5"
    /\ tasks_to_schedule = <<>>
    /\ pc' = "done"
    /\ UNCHANGED <<now, working, BUFFER, calendar_busy, tasks_to_schedule, busy_slots, placed>>
    /\ UNCHANGED <<mergeVars, decayVars, datesVars, appVars>>

\* one turn of the loop of lines 317-367 that ends with the task update
Place ==
    /\ pc = "loop"
    /\ Len(placed) < MaxAssigns
    /\ date_strs # <<>>
    /\ \E s \in Suggestions :
       \E fit \in {FirstFit(Candidates(s), busy_slots, Dur(s))} :
       \E res \in {IF fit.found THEN fit ELSE NoGap} :
          /\ placed' = Append(placed,
                 [tid |-> s.id, dur |-> Dur(s),
                  member |-> InSeq(DueInput(s), date_strs),
                  candidates |-> Candidates(s),
                  due |-> res.due, pointer |-> res.pointer,
                  end |-> res.pointer + Dur(s), degraded |-> ~fit.found,
                  busy_before |-> busy_slots, posted |-> PostedKeys])
          /\ busy_slots' = AddSlot(busy_slots, FromIso(res.due), res.pointer,
                                   res.pointer + Dur(s))
    /\ UNCHANGED <<now, working, BUFFER, calendar_busy, tasks_to_schedule, pc>>
    /\ UNCHANGED <<mergeVars, decayVars, datesVars, appVars>>

\* lines 324 and 348 with no working day in the horizon: date_strs[0] raises
PlaceCrash ==
    /\ pc = "loop"
    /\ Len(placed) < MaxAssigns
    /\ date_strs = <<>>
    /\ pc' = "crashed"
    /\ UNCHANGED <<now, working, BUFFER, calendar_busy, tasks_to_schedule, busy_slots, placed>>
    /\ UNCHANGED <<mergeVars, decayVars, datesVars, appVars>>

\* the list of suggestions is exhausted
EndLoop ==
    /\ pc = "loop"
    /\ pc' = "done"
    /\ UNCHANGED <<now, working, BUFFER, calendar_busy, tasks_to_schedule, busy_slots, placed>>
    /\ UNCHANGED <<mergeVars, decayVars, datesVars, appVars>>

Next == StartLoop \/ SuggestFails \/ SkipLoop \/ Place \/ PlaceCrash \/ EndLoop

Spec == Init /\ [][Next]_vars

(***************************************************************************)
(* Properties of the placement loop (Spec).                                *)
(***************************************************************************)
\* Two intervals overlap within the buffer: fewer than BUFFER units lie between them.
Overlap(s1, e1, s2, e2) == s1 < e2 + BUFFER /\ s2 < e1 + BUFFER

ConflictFree(s, e, slots) ==
    \A i \in 1..Len(slots) : ~Overlap(s, e, slots[i][1], slots[i][2])

\* Date d has a conflict-free slot of dur units inside the work window, not
\* before the first start the placer considers on that date.
Admits(d, dur, busy) ==
    \E t \in DayStart(d) .. (At(d, work_end) - dur) :
        ConflictFree(t, t + dur, SlotsOf(busy, d))

AdmittingDates(dur, busy) == {i \in 1..Len(avail) : Admits(avail[i], dur, busy)}

Priority(tid) ==
    LET i == CHOOSE k \in 1..Len(tasks_to_schedule) : tasks_to_schedule[k].id = tid
    IN  tasks_to_schedule[i].priority

SameDateBefore(j) == {i \in 1..(j - 1) : placed[i].due = placed[j].due}

NoConflictAt(j) ==
    /\ ConflictFree(placed[j].pointer, placed[j].end,
                    SlotsOf(placed[j].busy_before, FromIso(placed[j].due)))
    /\ \A i \in SameDateBefore(j) :
          ~Overlap(placed[i].pointer, placed[i].end, placed[j].pointer, placed[j].end)

\* C1 as stated: no committed assignment overlaps, within the buffer, an
\* assignment committed before it on the same date or a busy interval that was
\* in its date's busy set when it was placed.
C1_NoOverlapAtAll == \A j \in 1..Len(placed) : NoConflictAt(j)

\* C1 amended: every committed assignment that is not a no-gap placement is
\* free of such overlaps; only a no-gap placement overlaps what was there.
C1_CleanNoOverlap == \A j \in 1..Len(placed) : ~placed[j].degraded => NoConflictAt(j)

C1_Witness ==
    /\ Len(placed) = 2
    /\ placed[1].due = placed[2].due
    /\ ~placed[1].degraded /\ ~placed[2].degraded
    /\ placed[1].dur > 0 /\ placed[2].dur > 0
    /\ BUFFER > 0
    /\ SlotsOf(placed[1].busy_before, FromIso(placed[1].due)) # <<>>

\* C2: every committed assignment, a no-gap one included, starts at or after
\* work_start and ends, at start + duration, at or before work_end of its date.
C2_InsideWorkWindow ==
    \A j \in 1..Len(placed) :
        /\ placed[j].pointer >= At(FromIso(placed[j].due), work_start)
        /\ placed[j].end <= At(FromIso(placed[j].due), work_end)

\* C3: no task is committed on a date that already holds max_tasks_per_day
\* assignments committed in the run; it is moved to a later date.
C3_DayCap ==
    \A j \in 1..Len(placed) : Cardinality(SameDateBefore(j)) < max_tasks_per_day

\* C4: a task gets the no-gap placement exactly when no date of the horizon
\* has a conflict-free slot of its duration inside the work window.
C4_NoGapOnlyWhenFull ==
    \A j \in 1..Len(placed) :
        placed[j].degraded <=> AdmittingDates(placed[j].dur, placed[j].busy_before) = {}

\* C5: tasks are committed in ascending order of priority, whatever the order
\* of the suggestions.
C5_PriorityOrder ==
    \A i, j \in 1..Len(placed) :
        i < j => Priority(placed[i].tid) <= Priority(placed[j].tid)

\* C6: the date a task is committed on is one of the allowed dates of the
\* horizon and is never before today, whatever date was proposed.
C6_DateAllowed ==
    \A j \in 1..Len(placed) :
        /\ InSeq(placed[j].due, date_strs)
        /\ FromIso(placed[j].due) >= today

C6_Witness ==
    \E j \in 1..Len(placed) :
        /\ ~placed[j].member
        /\ placed[j].degraded
        /\ placed[j].due = Iso(today)

\* C7: the duration used to place a task and written to the tracker is
\* strictly positive.
C7_PositiveDuration == \A j \in 1..Len(placed) : placed[j].dur > 0

\* C8 as stated: a task whose proposed date is absent or not an allowed date
\* is committed on the earliest allowed date.
C8_EarliestAllowed ==
    \A j \in 1..Len(placed) : ~placed[j].member => placed[j].due = date_strs[1]

Least(S) == CHOOSE x \in S : \A y \in S : x <= y

\* C8 amended: such a task is committed on the earliest allowed date that has
\* a conflict-free slot for it, and on the earliest allowed date when none has.
C8_EarliestAdmitting ==
    \A j \in 1..Len(placed) :
        ~placed[j].member =>
            LET ok == AdmittingDates(placed[j].dur, placed[j].busy_before)
            IN  /\ ok = {} => placed[j].due = date_strs[1] /\ placed[j].degraded
                /\ ok # {} => placed[j].due = date_strs[Least(ok)] /\ ~placed[j].degraded

C8_Witness ==
    \E j \in 1..Len(placed) :
        /\ ~placed[j].member
        /\ Len(date_strs) = 2
        /\ placed[j].due = date_strs[2]
        /\ placed[j].dur > 0

Selected == {tasks_to_schedule[k].id : k \in 1..Len(tasks_to_schedule)}

\* C18: at most one due-date write is made per task id in a run, and only
\* for tasks selected in that run.
C18_OneWritePerTask ==
    /\ \A i, j \in 1..Len(placed) : i # j => placed[i].tid # placed[j].tid
    /\ \A j \in 1..Len(placed) : placed[j].tid \in Selected

\* C19: the write that commits a task's date and start time also carries
\* the task's priority.
C19_PriorityWritten == \A j \in 1..Len(placed) : "priority" \in placed[j].posted

\* C22: when the run has ended, every selected task (its due date was
\* cleared in step 2) has had a new due date written.
C22_ClearedTasksRewritten ==
    pc \in {"done", "crashed"} =>
        \A id \in Selected : \E j \in 1..Len(placed) : placed[j].tid = id

\* Placement j is the last write of the run for its task.
LastWrite(j) == \A k \in (j + 1)..Len(placed) : placed[k].tid # placed[j].tid

\* Step 2 of a second run, with the same clock and the same calendar, would
\* select the task of placement j again and clear its due date.
Reselected(j) == needs_update(placed[j].pointer, placed[j].dur, calendar_busy)

\* C23: no task placed by a run, clean or no-gap, is selected again by a
\* second run made with the same clock, calendar events and horizon.
C23_SecondRunKeeps ==
    pc = "done" => \A j \in 1..Len(placed) : LastWrite(j) => ~Reselected(j)

\* the interval blocked around the current time, line 313
InBlock(t) == now - current_time_buffer <= t /\ t < now + current_time_buffer

\* C24: every assignment committed on today's date, clean or no-gap, starts
\* at or after the current time plus 10 minutes, and a clean one does not
\* start inside the interval blocked around the current time.
C24_NotInThePast ==
    \A j \in 1..Len(placed) :
        FromIso(placed[j].due) = today =>
            /\ placed[j].pointer >= now + now_lead
            /\ ~placed[j].degraded => ~InBlock(placed[j].pointer)

SortedDisjoint(slots) ==
    \A i \in 1..(Len(slots) - 1) :
        slots[i][1] <= slots[i + 1][1] /\ slots[i][2] < slots[i + 1][1]

Contained(s, e, slots) ==
    \E k \in 1..Len(slots) : slots[k][1] <= s /\ e <= slots[k][2]

\* C20: after any number of placements every committed interval, clean or
\* no-gap, is contained in the busy set of its date, and every busy set is
\* sorted with each interval ending before the next starts.
C20_BusySetMaintained ==
    /\ \A d \in DOMAIN busy_slots : SortedDisjoint(busy_slots[d])
    /\ \A j \in 1..Len(placed) :
          Contained(placed[j].pointer, placed[j].end,
                    SlotsOf(busy_slots, FromIso(placed[j].due)))

C20_Witness ==
    /\ Len(placed) = 2
    /\ placed[1].due = placed[2].due
    /\ ~placed[1].degraded /\ placed[2].degraded
    /\ placed[1].dur > 0 /\ placed[2].dur > 0
    /\ Len(SlotsOf(placed[1].busy_before, FromIso(placed[1].due))) >= 2
    /\ Len(SlotsOf(busy_slots, FromIso(placed[2].due))) >= 2

(***************************************************************************)
(* The merger on its own: any list of at most MaxLen intervals over the    *)
(* times MergeTimes, in any order, inverted and empty intervals included,  *)
(* is merged, and the output is merged again.                              *)
(***************************************************************************)
RECURSIVE SeqsUpTo(_, _)
SeqsUpTo(S, n) ==
    IF n = 0 THEN {<<>>}
    ELSE LET shorter == SeqsUpTo(S, n - 1)
         IN  shorter \cup {Append(q, x) : q \in {r \in shorter : Len(r) = n - 1}, x \in S}

MergeTimes == 0..3

MergeInputs == SeqsUpTo(MergeTimes \X MergeTimes, MaxLen)

\* The scheduler run is not started.
RunIdle ==
    /\ now = 0 /\ working = {} /\ BUFFER = 0 /\ tasks_to_schedule = <<>>
    /\ calendar_busy = <<>> /\ busy_slots = <<>> /\ pc = "idle" /\ placed = <<>>

InitMerge ==
    /\ RunIdle
    /\ DecayIdle
    /\ DatesIdle
    /\ AppIdle
    /\ m_in \in MergeInputs
    /\ m_out = <<>>
    /\ m_again = <<>>
    /\ m_pc = "input"

MergeOnce ==
    /\ m_pc = "input"
    /\ m_out' = merge_intervals(m_in)
    /\ m_pc' = "merged"
    /\ UNCHANGED <<m_in, m_again>>
    /\ UNCHANGED <<runVars, decayVars, datesVars, appVars>>

MergeAgain ==
    /\ m_pc = "merged"
    /\ m_again' = merge_intervals(m_out)
    /\ m_pc' = "remerged"
    /\ UNCHANGED <<m_in, m_out>>
    /\ UNCHANGED <<runVars, decayVars, datesVars, appVars>>

NextMerge == MergeOnce \/ MergeAgain

SpecMerge == InitMerge /\ [][NextMerge]_vars

(***************************************************************************)
(* Properties of the merger (SpecMerge).                                   *)
(***************************************************************************)
\* C9: the output of merge_intervals is sorted by start and each interval
\* ends before the next one starts.
C9_MergeSortedDisjoint ==
    m_pc # "input" =>
        \A i \in 1..(Len(m_out) - 1) :
            /\ m_out[i][1] <= m_out[i + 1][1]
            /\ m_out[i][2] < m_out[i + 1][1]

C9_Witness ==
    /\ m_pc = "merged"
    /\ Len(m_in) = 3 /\ Len(m_out) = 2
    /\ m_in[1][1] > m_in[2][1]
    /\ \A i \in 1..3 : m_in[i][1] < m_in[i][2]

\* C10: merging the output of merge_intervals again gives the same list.
C10_MergeIdempotent == m_pc = "remerged" => m_again = m_out

C10_Witness ==
    /\ m_pc = "remerged"
    /\ Len(m_in) = 3 /\ Len(m_out) = 2
    /\ m_out # m_in

Proper(iv) == iv[1] < iv[2]

\* Input intervals i and j are proper and i ends at the instant j starts.
Meet(i, j) == Proper(m_in[i]) /\ Proper(m_in[j]) /\ m_in[i][2] = m_in[j][1]

\* One interval of the output spans input intervals i and j.
Fused(i, j) ==
    \E k \in 1..Len(m_out) :
        m_out[k][1] <= m_in[i][1] /\ m_in[j][2] <= m_out[k][2]

\* C11 as stated: two input intervals that meet at an exact boundary are not
\* fused into one block of the output.
C11_BoundaryKeptApart ==
    m_pc # "input" => \A i, j \in 1..Len(m_in) : Meet(i, j) => ~Fused(i, j)

\* C11 amended: two input intervals that meet at an exact boundary are fused:
\* one interval of the output spans both.
C11_BoundaryFused ==
    m_pc # "input" => \A i, j \in 1..Len(m_in) : Meet(i, j) => Fused(i, j)

C11_Witness ==
    /\ m_pc = "merged"
    /\ m_in = << <<0, 1>>, <<1, 2>> >>
    /\ m_out = << <<0, 2>> >>
\* Instant t lies in an interval of the list.
CoversInstant(list, t) ==
    \E i \in 1..Len(list) : list[i][1] <= t /\ t <= list[i][2]

\* The time between the instants t and t + 1 lies in an interval of the list.
CoversStretch(list, t) ==
    \E i \in 1..Len(list) : list[i][1] <= t /\ t + 1 <= list[i][2]

\* C25: for every input whose intervals have start <= end, the output of
\* merge_intervals covers exactly the time that the input covers: nothing
\* busy is dropped and no free time between intervals is marked busy.
C25_MergeKeepsCoverage ==
    (m_pc # "input" /\ \A i \in 1..Len(m_in) : m_in[i][1] <= m_in[i][2]) =>
        \A t \in MergeTimes :
            /\ CoversInstant(m_out, t) <=> CoversInstant(m_in, t)
            /\ CoversStretch(m_out, t) <=> CoversStretch(m_in, t)

C25_Witness ==
    /\ m_pc = "merged"
    /\ m_in = << <<3, 3>>, <<0, 2>>, <<0, 1>> >>
    /\ m_out = << <<0, 2>>, <<3, 3>> >>

(***************************************************************************)
(* Step 4 on its own, lines 283-293: the priority decay of the tasks       *)
(* selected in step 2.  created_at is "" when the tracker gives none, else *)
(* the ISO date that created[:10] cuts out of the timestamp.               *)
(***************************************************************************)
CreatedDates == (today - MaxAge) .. (today + 1)

\* date.fromisoformat(created[:10]), line 288
CreatedDate(created) == CHOOSE d \in CreatedDates : Iso(d) = created

\* Faulty variant of AgeDays: a creation date in the future gives a negative age.
SignedAgeDays(created) == today - CreatedDate(created)

\* max(0, (today - c).days), line 289
AgeDays(created) == Max(0, today - CreatedDate(created))

\* Faulty variant of Floor: no floor at 1.
NoFloor(prio) == prio

\* max(1, orig - decay), line 290
Floor(prio) == Max(1, prio)

\* the body of the loop of lines 284-293
Decayed(task) ==
    IF task.created_at # ""
    THEN [task EXCEPT !.priority =
              Floor(task.priority - AgeDays(task.created_at) * priority_decay_per_day)]
    ELSE task

DecayRates == 0..2
Priorities == 1..4
CreatedChoices == {""} \cup {Iso(d) : d \in CreatedDates}
\* the tasks step 2 selects: one or two, the ids in the order of the list
SelectedTasks ==
    {<<>>}
    \cup {<<[id |-> "t1", priority |-> p, created_at |-> c]>> :
             p \in Priorities, c \in CreatedChoices}
    \cup {<<[id |-> "t1", priority |-> p1, created_at |-> c1],
            [id |-> "t2", priority |-> p2, created_at |-> c2]>> :
             p1 \in Priorities, c1 \in CreatedChoices,
             p2 \in Priorities, c2 \in CreatedChoices}

\* The state after steps 1-3 (lines 112-280), as far as step 4 reads it.
InitDecay ==
    /\ MergeIdle
    /\ DatesIdle
    /\ AppIdle
    /\ now \in NowChoices
    /\ working = {}
    /\ BUFFER = 0
    /\ calendar_busy = <<>>
    /\ busy_slots = <<>>
    /\ placed = <<>>
    /\ priority_decay_per_day \in DecayRates
    /\ decay_in \in SelectedTasks
    /\ tasks_to_schedule = decay_in
    /\ pc = "step4"

\* lines 284-293
Decay ==
    /\ pc = "step4"
    /\ tasks_to_schedule' = [i \in 1..Len(tasks_to_schedule) |->
                                Decayed(tasks_to_schedule[i])]
    /\ pc' = "decayed"
    /\ UNCHANGED <<now, working, BUFFER, calendar_busy, busy_slots, placed>>
    /\ UNCHANGED <<mergeVars, decayVars, datesVars, appVars>>

NextDecay == Decay

SpecDecay == InitDecay /\ [][NextDecay]_vars

(***************************************************************************)
(* Properties of the priority decay (SpecDecay).                           *)
(***************************************************************************)
\* the age of task i in days, never negative
Age(i) ==
    LET c == CreatedDate(decay_in[i].created_at)
    IN  IF today > c THEN today - c ELSE 0

HasCreated(i) == decay_in[i].created_at # ""

\* C12: for every task with a creation date, the priority after the decay is
\* max(1, priority - ageDays * priority_decay_per_day), ageDays being
\* max(0, today - createdDate); age 0 leaves the priority unchanged, and
\* priority 3 aged 10 days with decay 1 gives 1.
C12_DecayFormula ==
    pc = "decayed" =>
        \A i \in 1..Len(decay_in) :
            HasCreated(i) =>
                LET raw == decay_in[i].priority - Age(i) * priority_decay_per_day
                    new == tasks_to_schedule[i].priority
                IN  /\ new = IF raw > 1 THEN raw ELSE 1
                    /\ Age(i) = 0 => new = decay_in[i].priority
                    /\ (decay_in[i].priority = 3 /\ Age(i) = 10
                         /\ priority_decay_per_day = 1) => new = 1

C12_Witness ==
    /\ pc = "decayed"
    /\ Len(decay_in) = 2
    /\ priority_decay_per_day = 1
    /\ decay_in[1].priority = 3 /\ decay_in[1].created_at = Iso(today - 10)
    /\ tasks_to_schedule[1].priority = 1
    /\ decay_in[2].priority = 2 /\ decay_in[2].created_at = Iso(today + 1)
    /\ tasks_to_schedule[2].priority = 2

\* C13: with priority_decay_per_day > 0, of two tasks of the same nominal
\* priority the older one has no greater decayed priority, and every decayed
\* priority is at least 1.
C13_DecayMonotone ==
    (pc = "decayed" /\ priority_decay_per_day > 0) =>
        /\ \A i \in 1..Len(decay_in) :
              HasCreated(i) => tasks_to_schedule[i].priority >= 1
        /\ \A i, j \in 1..Len(decay_in) :
              (/\ HasCreated(i) /\ HasCreated(j)
               /\ decay_in[i].priority = decay_in[j].priority
               /\ Age(i) < Age(j))
              => tasks_to_schedule[j].priority <= tasks_to_schedule[i].priority

C13_Witness ==
    /\ pc = "decayed"
    /\ priority_decay_per_day = 2
    /\ Len(decay_in) = 2
    /\ decay_in[1].priority = 4 /\ decay_in[2].priority = 4
    /\ HasCreated(1) /\ HasCreated(2)
    /\ Age(1) = 1 /\ Age(2) = MaxAge
    /\ tasks_to_schedule[1].priority = 2 /\ tasks_to_schedule[2].priority = 1
(***************************************************************************)
(* get_available_dates on its own, lines 50-60: any range of the days      *)
(* 0 .. MaxDay, with any set of days that the holiday calendar accepts.    *)
(***************************************************************************)
Days == 0..MaxDay

InitDates ==
    /\ MergeIdle
    /\ DecayIdle
    /\ AppIdle
    /\ now = 0 /\ BUFFER = 0 /\ tasks_to_schedule = <<>>
    /\ calendar_busy = <<>> /\ busy_slots = <<>> /\ pc = "idle" /\ placed = <<>>
    /\ working \in SUBSET Days
    /\ g_start \in Days
    /\ g_end \in Days
    /\ g_out = <<>>
    /\ g_pc = "call"

ListDates ==
    /\ g_pc = "call"
    /\ g_out' = get_available_dates(g_start, g_end)
    /\ g_pc' = "listed"
    /\ UNCHANGED <<g_start, g_end>>
    /\ UNCHANGED <<runVars, mergeVars, decayVars, appVars>>

NextDates == ListDates

SpecDates == InitDates /\ [][NextDates]_vars

(***************************************************************************)
(* Properties of get_available_dates (SpecDates).                          *)
(***************************************************************************)
Weekend(d) == Weekday(d) \in {5, 6}
Holiday(d) == d \notin working

\* C14: get_available_dates(start, end) returns exactly the dates of
\* start .. end that are neither a weekend day nor a holiday, in strictly
\* increasing order, and the empty sequence when start > end.
C14_AvailableDates ==
    g_pc = "listed" =>
        /\ {g_out[i] : i \in 1..Len(g_out)}
              = {d \in Days : g_start <= d /\ d <= g_end /\ ~Weekend(d) /\ ~Holiday(d)}
        /\ \A i \in 1..(Len(g_out) - 1) : g_out[i] < g_out[i + 1]
        /\ g_start > g_end => g_out = <<>>

C14_Witness ==
    /\ g_pc = "listed"
    /\ g_start = 3 /\ g_end = 7
    /\ working = Days \ {3}
    /\ g_out = <<4, 7>>
(***************************************************************************)
(* The web service, src/app.py: the Todoist webhook, the manual trigger    *)
(* and the calendar webhook, each of which starts ai_scheduler.py.  The    *)
(* two webhooks are coroutines of one event loop and make blocking calls,  *)
(* so each runs from start to end without another coroutine in between;    *)
(* /run is a plain function and runs in a worker thread.                   *)
(***************************************************************************)
PROJECT_ID == "p1"
Projects == {"p1", "p2"}
EventNames == {"item:updated", "item:completed"}
\* event_data.get("id"): a task id, or "" when the payload has none
HookTaskIds == {"t1", "t2", ""}
EventIds == <<"e1", "e2">>
ResourceStates == {"exists", "sync", "not_exists"}
debounce == 3                     \* 180 seconds, line 256

InitialCalendars ==
    UNION {[S -> {"t1", "t2"}] : S \in SUBSET {EventIds[i] : i \in 1..Len(EventIds)}}

Total(p) == p["todoist"] + p["manual"] + p["calendar"]

\* subprocess.run in the coroutine of lines 267-270 holds the event loop.
LoopBlocked == procs["calendar"] > 0

RECURSIVE Tagged(_, _, _)
Tagged(cal, q, ids) ==
    IF ids = <<>> THEN <<>>
    ELSE (IF ids[1] \in DOMAIN cal /\ cal[ids[1]] = q THEN <<ids[1]>> ELSE <<>>)
         \o Tagged(cal, q, Tail(ids))

\* events().list(calendarId=GOOGLE_CAL_ID, q="[task_id]"), lines 220-223
ListEvents(cal, task_id) == Tagged(cal, task_id, EventIds)

\* events().delete(...) for the first n of existing, lines 224-228
DeleteFirst(cal, existing, n) ==
    [e \in DOMAIN cal \ {existing[i] : i \in 1..n} |-> cal[e]]

InitApp ==
    /\ RunIdle
    /\ MergeIdle
    /\ DecayIdle
    /\ DatesIdle
    /\ calendar \in InitialCalendars
    /\ procs = [o \in Origins |-> 0]
    /\ clock = 0
    /\ last_scheduler_run = datetime_min
    /\ last_start = datetime_min
    /\ hooks = <<>>

\* POST /webhook, lines 185-236.  fail = 0: every delete succeeds; fail = k:
\* the k-th delete raises, and the exception leaves the handler.
TodoistWebhook ==
    /\ ~LoopBlocked
    /\ Len(hooks) < MaxHooks
    /\ Total(procs) < MaxProcs
    /\ \E payload_proj \in Projects, event \in EventNames,
          task_id \in HookTaskIds, due_info \in BOOLEAN :
         IF payload_proj # PROJECT_ID
         THEN /\ hooks' = Append(hooks,
                     [task |-> task_id, response |-> "ignored", reconcile |-> FALSE,
                      existing |-> <<>>, tried |-> 0, launched |-> FALSE])
              /\ UNCHANGED <<calendar, procs>>
         ELSE IF event = "item:updated" /\ due_info /\ task_id # ""
         THEN \E existing \in {ListEvents(calendar, task_id)} :
              \E fail \in 0..Len(existing) :
                 IF fail = 0
                 THEN /\ calendar' = DeleteFirst(calendar, existing, Len(existing))
                      /\ procs' = [procs EXCEPT !["todoist"] = @ + 1]
                      /\ hooks' = Append(hooks,
                             [task |-> task_id, response |-> "OK", reconcile |-> TRUE,
                              existing |-> existing, tried |-> Len(existing),
                              launched |-> TRUE])
                 ELSE /\ calendar' = DeleteFirst(calendar, existing, fail - 1)
                      /\ UNCHANGED procs
                      /\ hooks' = Append(hooks,
                             [task |-> task_id, response |-> "error", reconcile |-> TRUE,
                              existing |-> existing, tried |-> fail,
                              launched |-> FALSE])
         ELSE /\ procs' = [procs EXCEPT !["todoist"] = @ + 1]
              /\ hooks' = Append(hooks,
                     [task |-> task_id, response |-> "OK", reconcile |-> FALSE,
                      existing |-> <<>>, tried |-> 0, launched |-> TRUE])
              /\ UNCHANGED calendar
    /\ last_start' = IF procs'["todoist"] > procs["todoist"] THEN clock ELSE last_start
    /\ UNCHANGED <<clock, last_scheduler_run>>
    /\ UNCHANGED <<runVars, mergeVars, decayVars, datesVars>>

\* GET /run, lines 113-118: subprocess.run starts the scheduler
RunScheduler ==
    /\ ~LoopBlocked
    /\ Total(procs) < MaxProcs
    /\ procs' = [procs EXCEPT !["manual"] = @ + 1]
    /\ last_start' = clock
    /\ UNCHANGED <<calendar, clock, last_scheduler_run, hooks>>
    /\ UNCHANGED <<runVars, mergeVars, decayVars, datesVars>>

\* POST /calendar/webhook, lines 239-270, up to the start of the scheduler
CalendarWebhook ==
    /\ ~LoopBlocked
    /\ Total(procs) < MaxProcs
    /\ \E x_goog_resource_state \in ResourceStates :
         IF x_goog_resource_state \notin {"exists", "sync"}
         THEN UNCHANGED <<procs, last_scheduler_run, last_start>>
         ELSE IF clock - last_scheduler_run < debounce
         THEN UNCHANGED <<procs, last_scheduler_run, last_start>>
         ELSE /\ last_scheduler_run' = clock
              /\ last_start' = clock
              /\ procs' = [procs EXCEPT !["calendar"] = @ + 1]
    /\ UNCHANGED <<calendar, clock, hooks>>
    /\ UNCHANGED <<runVars, mergeVars, decayVars, datesVars>>

\* an ai_scheduler.py process ends; subprocess.run of lines 118 and 270 returns
SchedulerExit ==
    /\ \E o \in Origins :
         /\ procs[o] > 0
         /\ procs' = [procs EXCEPT ![o] = @ - 1]
    /\ UNCHANGED <<calendar, clock, last_scheduler_run, last_start, hooks>>
    /\ UNCHANGED <<runVars, mergeVars, decayVars, datesVars>>

\* time passes
Tick ==
    /\ clock < MaxClock
    /\ clock' = clock + 1
    /\ UNCHANGED <<calendar, procs, last_scheduler_run, last_start, hooks>>
    /\ UNCHANGED <<runVars, mergeVars, decayVars, datesVars>>

NextApp == TodoistWebhook \/ RunScheduler \/ CalendarWebhook \/ SchedulerExit \/ Tick

SpecApp == InitApp /\ [][NextApp]_vars
(***************************************************************************)
(* Properties of the web service (SpecApp).                                *)
(***************************************************************************)
\* Webhook i went through the reconciliation of lines 219-229 to its end.
Reconciled(i) == hooks[i].reconcile /\ hooks[i].response = "OK"

\* C15: after the reconciliation has been done twice in succession for the
\* same task id, exactly one calendar entry tagged with that id exists.
C15_ReconcileTwiceOne ==
    \A i \in 1..(Len(hooks) - 1) :
        (/\ i + 1 = Len(hooks)
         /\ Reconciled(i) /\ Reconciled(i + 1)
         /\ hooks[i].task = hooks[i + 1].task)
        => Len(ListEvents(calendar, hooks[i].task)) = 1

\* C16: when the deletion of a stale entry fails, the remaining stale entries
\* of the task are still attempted and the scheduler is still launched.
C16_DeleteFailureNotFatal ==
    \A i \in 1..Len(hooks) :
        (hooks[i].reconcile /\ hooks[i].response = "error")
        => /\ hooks[i].tried = Len(hooks[i].existing)
           /\ hooks[i].launched

\* C17: at most one ai_scheduler.py run is in progress at any instant.
C17_OneRunAtATime == Total(procs) <= 1
\* C21: the calendar webhook starts no run of the scheduler when a run was
\* started within the previous 180 seconds, by whichever handler.
C21_DebounceAnyOrigin ==
    [][procs'["calendar"] > procs["calendar"] => clock - last_start >= debounce]_vars

====
